---- MODULE Spec2Model ----
(***************************************************************************)
(* Design-request tracker (Django application "main"): the entity store    *)
(* (users, categories, design requests), the form validators and the view *)
(* handlers register, home, create_request, delete_request, change_status *)
(* and manage_categories.                                                  *)
(*                                                                         *)
(* Conventions.  Text values whose content matters (full names, category   *)
(* names, comments) are sequences of one-character strings; the empty      *)
(* sequence stands for an absent/None/empty value (all are falsy in the    *)
(* source).  An uploaded file is a record [ext, size]; NoFile is the       *)
(* absent upload and the empty stored file reference.  created_at is a     *)
(* logical clock that ticks once per created request.                      *)
(***************************************************************************)
EXTENDS Integers, Sequences, FiniteSets, TLC

VARIABLES
    users,            \* auth_user table: set of user records
    categories,       \* Category table: id -> name
    requests,         \* DesignRequest table: id -> record
    nextCategoryId,   \* AUTOINCREMENT counter of Category
    nextRequestId,    \* AUTOINCREMENT counter of DesignRequest
    http              \* the last HTTP exchange: request line and response

vars == <<users, categories, requests, nextCategoryId, nextRequestId, http>>
store == <<users, categories, requests, nextCategoryId, nextRequestId>>

----------------------------------------------------------------------------
(* Bounds of the model *)

\* ids issued per table in Spec
MaxRequests == 1
MaxCategories == 1

\* ids issued per table in SpecWide
WideMaxRequests == 2
WideMaxCategories == 2

----------------------------------------------------------------------------
(* Principals *)

AnonymousUser == "AnonymousUser"

AdminUser ==
    [username |-> "admin", email |-> "admin@example.com", is_staff |-> TRUE,
     first_name |-> <<>>, last_name |-> <<>>]

IvanUser ==
    [username |-> "ivan", email |-> "ivan@example.com", is_staff |-> FALSE,
     first_name |-> <<"cyr_b">>, last_name |-> <<"cyr_a">>]

Usernames == {u.username : u \in users}

UserOf(name) == CHOOSE u \in users : u.username = name

is_authenticated(user) == user \in Usernames

\* the request.user values a handler can be called with
Callers == Usernames \cup {AnonymousUser}

is_staff(user) == is_authenticated(user) /\ UserOf(user).is_staff

\* a check of the login alone
is_admin_any_login(user) == is_authenticated(user)

is_admin(user) == is_staff(user)

----------------------------------------------------------------------------
(* HTTP exchange record *)

\* view: the handler; user: request.user; result: the kind of response;
\* errors: the fields of form.errors; target: the id of the object the handler
\* looked up or wrote (0 if none); session: the user of the session afterwards
Exchange(view, user, result, errors, target, session) ==
    [view |-> view, user |-> user, result |-> result,
     errors |-> errors, target |-> target, session |-> session]

Methods == {"GET", "POST"}

----------------------------------------------------------------------------
(* 4.1 Registration: CustomUserCreationForm and the register view *)

CyrillicLetters == {"cyr_a", "cyr_b", "cyr_v"}
Whitespace == {" "}

\* RegexValidator: only Cyrillic letters, whitespace and hyphens.  The
\* characters "cyr_a", "cyr_b", "cyr_v" stand for Cyrillic letters, "lat_z"
\* for a Latin one.
full_name_regex(s) ==
    /\ Len(s) > 0
    /\ \A i \in 1..Len(s) : s[i] \in CyrillicLetters \cup Whitespace \cup {"-"}

\* str.split(): maximal runs of non-whitespace characters
RECURSIVE SplitFrom(_, _, _)
SplitFrom(s, i, cur) ==
    IF i > Len(s)
    THEN IF cur = <<>> THEN <<>> ELSE <<cur>>
    ELSE IF s[i] \in Whitespace
         THEN IF cur = <<>>
              THEN SplitFrom(s, i + 1, <<>>)
              ELSE <<cur>> \o SplitFrom(s, i + 1, <<>>)
         ELSE SplitFrom(s, i + 1, Append(cur, s[i]))

split(s) == SplitFrom(s, 1, <<>>)

\* forms.CharField(strip=True): leading and trailing whitespace removed
RECURSIVE LStrip(_)
LStrip(s) ==
    IF s # <<>> /\ Head(s) \in Whitespace THEN LStrip(Tail(s)) ELSE s

RECURSIVE RStrip(_)
RStrip(s) ==
    IF s # <<>> /\ s[Len(s)] \in Whitespace
    THEN RStrip(SubSeq(s, 1, Len(s) - 1))
    ELSE s

strip(s) == RStrip(LStrip(s))

clean_username(username) ==
    ~ \E u \in users : u.username = username

\* clean_email without the lookup
clean_email_any(email) == TRUE

clean_email(email) ==
    ~ \E u \in users : u.email = email

clean_password2(password1, password2) ==
    ~ (password1 # "" /\ password2 # "" /\ password1 # password2)

clean_full_name(full_name) ==
    Len(split(strip(full_name))) >= 2

\* django.core.validators.EmailValidator, on the addresses of the model
WellFormedEmails ==
    {"admin@example.com", "ivan@example.com", "olga@example.com"}

email_syntax_valid(email) == email = "" \/ email \in WellFormedEmails

\* the set of fields is_valid() reports an error on
CustomUserCreationForm_errors(form) ==
    (IF form.username = "" \/ ~ clean_username(form.username)
        THEN {"username"} ELSE {})
    \cup (IF ~ email_syntax_valid(form.email) \/ ~ clean_email(form.email)
        THEN {"email"} ELSE {})
    \cup (IF form.password1 = "" THEN {"password1"} ELSE {})
    \cup (IF form.password2 = ""
             \/ ~ clean_password2(form.password1, form.password2)
        THEN {"password2"} ELSE {})
    \cup (IF strip(form.full_name) = <<>>
             \/ ~ full_name_regex(strip(form.full_name))
             \/ ~ clean_full_name(strip(form.full_name))
        THEN {"full_name"} ELSE {})
    \cup (IF ~ form.agree_to_terms THEN {"agree_to_terms"} ELSE {})

CustomUserCreationForm_save(form) ==
    LET name_parts == split(strip(form.full_name)) IN
    [username |-> form.username,
     email |-> form.email,
     is_staff |-> FALSE,
     first_name |-> IF Len(name_parts) >= 2 THEN name_parts[2] ELSE <<>>,
     last_name |-> IF Len(name_parts) > 2
                     THEN name_parts[1] \o <<" ">> \o name_parts[3]
                   ELSE IF Len(name_parts) >= 2 THEN name_parts[1]
                   ELSE <<>>]

register(user, method, form) ==
    /\ UNCHANGED <<categories, requests, nextCategoryId, nextRequestId>>
    /\ IF method = "POST" /\ CustomUserCreationForm_errors(form) = {}
       THEN /\ users' = users \cup {CustomUserCreationForm_save(form)}
            /\ http' = Exchange("register", user, "redirect_success",
                                {}, 0, form.username)
       ELSE /\ users' = users
            /\ http' = Exchange("register", user, "render",
                                IF method = "POST"
                                  THEN CustomUserCreationForm_errors(form)
                                  ELSE {},
                                0, user)

----------------------------------------------------------------------------
(* models.py: file validators and the DesignRequest status choices *)

MaxUploadSize == 2097152

NoFile == [ext |-> "", size |-> 0]

\* str.lower() on the extensions of the model
lower(ext) ==
    CASE ext = ".PNG" -> ".png"
      [] ext = ".JPG" -> ".jpg"
      [] ext = ".GIF" -> ".gif"
      [] OTHER -> ext

validate_file_size(value) == value.size <= MaxUploadSize

valid_extensions == {".jpg", ".jpeg", ".png", ".bmp"}

validate_image_extension_and_size(value) ==
    /\ validate_file_size(value)
    /\ lower(value.ext) \in valid_extensions

STATUS_CHOICES == {"new", "in_progress", "complited"}

\* the statuses the views treat as closed (views.py, both guards)
ClosedStatuses == {"in_progress", "completed"}

RequestIds == DOMAIN requests
CategoryIds == DOMAIN categories

\* a function without the key k
Without(f, k) == [x \in DOMAIN f \ {k} |-> f[x]]

----------------------------------------------------------------------------
(* home *)

RECURSIVE OrderByCreatedDesc(_)
OrderByCreatedDesc(ids) ==
    IF ids = {} THEN <<>>
    ELSE LET newest == CHOOSE r \in ids :
                 \A q \in ids : requests[q].created_at <= requests[r].created_at
         IN <<newest>> \o OrderByCreatedDesc(ids \ {newest})

HomePageSize == 4

FirstN(seq, n) == SubSeq(seq, 1, IF Len(seq) < n THEN Len(seq) ELSE n)

\* the status token the landing page filters on
HomeStatusFilter == "completed"

completed_requests ==
    FirstN(OrderByCreatedDesc(
               {r \in RequestIds : requests[r].status = HomeStatusFilter}),
           HomePageSize)

in_progress_count ==
    Cardinality({r \in RequestIds : requests[r].status = "in_progress"})

\* the view reads neither request.user nor request.method
home(user, method) ==
    /\ UNCHANGED store
    /\ http' = Exchange("home", user, "render", {}, 0, user)

----------------------------------------------------------------------------
(* 4.2 create_request and DesignRequestForm *)

DesignRequestForm_errors(form) ==
    (IF form.title = "" THEN {"title"} ELSE {})
    \cup (IF form.description = "" THEN {"description"} ELSE {})
    \cup (IF form.category \notin CategoryIds THEN {"category"} ELSE {})
    \cup (IF form.plan_image = NoFile
             \/ ~ validate_image_extension_and_size(form.plan_image)
        THEN {"plan_image"} ELSE {})

\* the instance built from the submitted status and user parameters
NewDesignRequest_forged(form, user) ==
    [user |-> IF form.user # "" THEN form.user ELSE user,
     title |-> form.title,
     description |-> form.description,
     category |-> form.category,
     plan_image |-> form.plan_image,
     status |-> IF form.status # "" THEN form.status ELSE "new",
     created_at |-> nextRequestId,
     design_image |-> NoFile,
     admin_comment |-> <<>>]

\* form.save(commit=False), then user and status set by the view
NewDesignRequest(form, user) ==
    [user |-> user,
     title |-> form.title,
     description |-> form.description,
     category |-> form.category,
     plan_image |-> form.plan_image,
     status |-> "new",
     created_at |-> nextRequestId,
     design_image |-> NoFile,
     admin_comment |-> <<>>]

create_request(user, method, form) ==
    IF ~ is_authenticated(user)
    THEN /\ UNCHANGED store
         /\ http' = Exchange("create_request", user, "login_redirect",
                             {}, 0, user)
    ELSE IF method = "POST" /\ DesignRequestForm_errors(form) = {}
    THEN /\ requests' = requests @@ (nextRequestId :> NewDesignRequest(form, user))
         /\ nextRequestId' = nextRequestId + 1
         /\ UNCHANGED <<users, categories, nextCategoryId>>
         /\ http' = Exchange("create_request", user, "redirect_success",
                             {}, nextRequestId, user)
    ELSE /\ UNCHANGED store
         /\ http' = Exchange("create_request", user, "render",
                             IF method = "POST"
                               THEN DesignRequestForm_errors(form) ELSE {},
                             0, user)

----------------------------------------------------------------------------
(* 4.4 delete_request *)

delete_request(user, method, request_id) ==
    IF ~ is_authenticated(user)
    THEN /\ UNCHANGED store
         /\ http' = Exchange("delete_request", user, "login_redirect",
                             {}, 0, user)
    ELSE IF ~ (request_id \in RequestIds /\ requests[request_id].user = user)
    THEN /\ UNCHANGED store
         /\ http' = Exchange("delete_request", user, "not_found",
                             {}, request_id, user)
    ELSE IF requests[request_id].status \in ClosedStatuses
    THEN /\ UNCHANGED store
         /\ http' = Exchange("delete_request", user, "redirect_error",
                             {}, request_id, user)
    ELSE IF method = "POST"
    THEN /\ requests' = Without(requests, request_id)
         /\ UNCHANGED <<users, categories, nextCategoryId, nextRequestId>>
         /\ http' = Exchange("delete_request", user, "redirect_success",
                             {}, request_id, user)
    ELSE /\ UNCHANGED store
         /\ http' = Exchange("delete_request", user, "render",
                             {}, request_id, user)

----------------------------------------------------------------------------
(* 4.3 change_status and ChangeStatusForm *)

\* forms.FileField.clean with ClearableFileInput: the cleaned design_image
cleaned_design_image(instance, form) ==
    IF form.clear THEN NoFile
    ELSE IF form.design_image # NoFile THEN form.design_image
    ELSE instance.design_image

\* forms.CharField(strip=True, empty_value=None)
cleaned_admin_comment(form) == strip(form.admin_comment)

\* ChangeStatusForm.clean without the in_progress rule
ChangeStatusForm_clean_no_comment_rule(status, design_image, admin_comment) ==
    IF status = "completed" /\ design_image = NoFile
        THEN {"design_image"} ELSE {}

\* ChangeStatusForm.clean: the fields it adds an error to
ChangeStatusForm_clean(status, design_image, admin_comment) ==
    (IF status = "completed" /\ design_image = NoFile
        THEN {"design_image"} ELSE {})
    \cup (IF status = "in_progress" /\ admin_comment = <<>>
        THEN {"admin_comment"} ELSE {})

\* the fields is_valid() reports an error on: field cleaning, clean(), then
\* the model validators of _post_clean
ChangeStatusForm_errors(instance, form) ==
    LET status_ok == form.status \in STATUS_CHOICES
        contradiction == form.clear /\ form.design_image # NoFile
        image == IF contradiction THEN NoFile
                 ELSE cleaned_design_image(instance, form)
        field_errors ==
            (IF status_ok THEN {} ELSE {"status"})
            \cup (IF contradiction THEN {"design_image"} ELSE {})
        clean_errors ==
            ChangeStatusForm_clean(IF status_ok THEN form.status ELSE "",
                                   image, cleaned_admin_comment(form))
        model_errors ==
            IF /\ "design_image" \notin field_errors \cup clean_errors
               /\ image # NoFile
               /\ ~ validate_image_extension_and_size(image)
            THEN {"design_image"} ELSE {}
    IN field_errors \cup clean_errors \cup model_errors

ChangeStatusForm_save(instance, form) ==
    [instance EXCEPT !.status = form.status,
                     !.design_image = cleaned_design_image(instance, form),
                     !.admin_comment = cleaned_admin_comment(form)]

change_status(user, method, request_id, form) ==
    IF ~ is_admin(user)
    THEN /\ UNCHANGED store
         /\ http' = Exchange("change_status", user, "login_redirect",
                             {}, 0, user)
    ELSE IF request_id \notin RequestIds
    THEN /\ UNCHANGED store
         /\ http' = Exchange("change_status", user, "not_found",
                             {}, request_id, user)
    ELSE IF requests[request_id].status \in ClosedStatuses
    THEN /\ UNCHANGED store
         /\ http' = Exchange("change_status", user, "redirect_error",
                             {}, request_id, user)
    ELSE IF method = "POST"
            /\ ChangeStatusForm_errors(requests[request_id], form) = {}
    THEN /\ requests' = [requests EXCEPT ![request_id] =
                            ChangeStatusForm_save(requests[request_id], form)]
         /\ UNCHANGED <<users, categories, nextCategoryId, nextRequestId>>
         /\ http' = Exchange("change_status", user, "redirect_success",
                             {}, request_id, user)
    ELSE /\ UNCHANGED store
         /\ http' = Exchange("change_status", user, "render",
                             IF method = "POST"
                               THEN ChangeStatusForm_errors(requests[request_id], form)
                               ELSE {},
                             request_id, user)

----------------------------------------------------------------------------
(* 4.5 manage_categories *)

\* the unique=True constraint of Category.name: an exact-match comparison
name_is_unique(name) == ~ \E c \in CategoryIds : categories[c] = name

\* a cascade that spares the requests already triaged
requests_after_cascade_new_only(cat_id) ==
    LET kept == {r \in RequestIds :
                    requests[r].category # cat_id \/ requests[r].status # "new"}
    IN [r \in kept |-> requests[r]]

\* DesignRequest.objects.filter(category=category).delete()
requests_after_cascade(cat_id) ==
    LET kept == {r \in RequestIds : requests[r].category # cat_id}
    IN [r \in kept |-> requests[r]]

manage_categories(user, method, post) ==
    IF ~ is_admin(user)
    THEN /\ UNCHANGED store
         /\ http' = Exchange("manage_categories", user,
                             "login_redirect", {}, 0, user)
    ELSE IF method = "POST" /\ post.action = "add" /\ post.name # <<>>
    THEN IF name_is_unique(post.name)
         THEN /\ categories' = categories @@ (nextCategoryId :> post.name)
              /\ nextCategoryId' = nextCategoryId + 1
              /\ UNCHANGED <<users, requests, nextRequestId>>
              /\ http' = Exchange("manage_categories", user,
                                  "render_success", {}, nextCategoryId, user)
         ELSE /\ UNCHANGED store
              /\ http' = Exchange("manage_categories", user,
                                  "server_error", {}, 0, user)
    ELSE IF method = "POST" /\ post.action = "delete" /\ post.category_id # 0
    THEN IF post.category_id \in CategoryIds
         THEN /\ requests' = requests_after_cascade(post.category_id)
              /\ categories' = Without(categories, post.category_id)
              /\ UNCHANGED <<users, nextCategoryId, nextRequestId>>
              /\ http' = Exchange("manage_categories", user,
                                  "render_success", {}, post.category_id, user)
         ELSE /\ UNCHANGED store
              /\ http' = Exchange("manage_categories", user,
                                  "render_error", {}, post.category_id, user)
    ELSE /\ UNCHANGED store
         /\ http' = Exchange("manage_categories", user, "render",
                             {}, 0, user)

----------------------------------------------------------------------------
(* Inputs of the request-lifecycle scenario *)

Png == [ext |-> ".PNG", size |-> 2097152]
Gif == [ext |-> ".gif", size |-> 1024]
TooBig == [ext |-> ".png", size |-> 2097153]

Comment == <<"o", "k">>
Blank == <<" ">>

\* ids a client can name: every id ever issued and one never issued
RequestIdInputs == 1..nextRequestId
CategoryIdInputs == 1..nextCategoryId

BaseRequestForm(c) ==
    [title |-> "Kitchen", description |-> "Loft style", category |-> c,
     plan_image |-> Png, status |-> "", user |-> ""]

\* well-formed submissions for every category id (with and without forged
\* status and user parameters), and one submission per validation failure
CreateInputs ==
    UNION {{BaseRequestForm(c),
            [BaseRequestForm(c) EXCEPT !.status = "complited", !.user = "admin"]}
           : c \in CategoryIdInputs \cup {0}}
    \cup {[BaseRequestForm(1) EXCEPT !.title = ""],
          [BaseRequestForm(1) EXCEPT !.description = ""],
          [BaseRequestForm(1) EXCEPT !.plan_image = NoFile],
          [BaseRequestForm(1) EXCEPT !.plan_image = Gif],
          [BaseRequestForm(1) EXCEPT !.plan_image = TooBig]}

StatusForm(st, img, clr, com) ==
    [status |-> st, design_image |-> img, clear |-> clr, admin_comment |-> com]

ChangeInputs ==
    {StatusForm(st, img, FALSE, com) :
        st \in {"in_progress", "complited"},
        img \in {NoFile, Png}, com \in {<<>>, Comment}}
    \cup {StatusForm(st, NoFile, FALSE, <<>>) : st \in {"new", "completed", ""}}
    \cup {StatusForm(st, Png, FALSE, Comment) : st \in {"new", "completed"}}
    \cup {StatusForm("complited", Gif, FALSE, <<>>),
          StatusForm("in_progress", TooBig, FALSE, Comment),
          StatusForm("complited", NoFile, TRUE, <<>>),
          StatusForm("complited", Png, TRUE, <<>>),
          StatusForm("in_progress", NoFile, FALSE, Blank)}

NoStatusForm == StatusForm("", NoFile, FALSE, <<>>)

CategoryNames == {<<"A", "b">>, <<"a", "b">>}

CategoryPosts ==
    {[action |-> "add", name |-> n, category_id |-> 0] :
        n \in CategoryNames \cup {<<>>}}
    \cup {[action |-> "delete", name |-> <<>>, category_id |-> c] :
        c \in CategoryIdInputs \cup {0}}
    \cup {[action |-> "rename", name |-> <<"a", "b">>, category_id |-> 1]}

NoPost == [action |-> "", name |-> <<>>, category_id |-> 0]

\* The wrappers below enumerate an input only on the paths where the handler
\* reads it: the method and the form are not read before the access checks and
\* the lookups have passed.

Home ==
    \E user \in Callers : home(user, "GET")

CreateRequestWithin(max) ==
    \E user \in Callers :
        \E method \in IF is_authenticated(user) THEN Methods ELSE {"GET"} :
            \E form \in IF method = "POST" THEN CreateInputs
                        ELSE {BaseRequestForm(0)} :
                /\ create_request(user, method, form)
                /\ nextRequestId' <= max + 1

CreateRequest == CreateRequestWithin(MaxRequests)

DeleteRequest ==
    \E user \in Callers :
        \E request_id \in IF is_authenticated(user) THEN RequestIdInputs
                          ELSE {1} :
            \E method \in IF /\ request_id \in RequestIds
                             /\ requests[request_id].user = user
                             /\ requests[request_id].status \notin ClosedStatuses
                          THEN Methods ELSE {"GET"} :
                delete_request(user, method, request_id)

ChangeStatus ==
    \E user \in Callers :
        \E request_id \in IF is_admin(user) THEN RequestIdInputs ELSE {1} :
            \E method \in IF /\ is_admin(user)
                             /\ request_id \in RequestIds
                             /\ requests[request_id].status \notin ClosedStatuses
                          THEN Methods ELSE {"GET"} :
                \E form \in IF method = "POST" THEN ChangeInputs
                            ELSE {NoStatusForm} :
                    change_status(user, method, request_id, form)

ManageCategoriesWithin(max) ==
    \E user \in Callers :
        \E method \in IF is_admin(user) THEN Methods ELSE {"GET"} :
            \E post \in IF method = "POST" THEN CategoryPosts ELSE {NoPost} :
                /\ manage_categories(user, method, post)
                /\ nextCategoryId' <= max + 1

ManageCategories == ManageCategoriesWithin(MaxCategories)

\* the store after the administrator account was created and one end user
\* registered; no category and no request yet
Init ==
    /\ users = {AdminUser, IvanUser}
    /\ categories = <<>>
    /\ requests = <<>>
    /\ nextCategoryId = 1
    /\ nextRequestId = 1
    /\ http = Exchange("none", AnonymousUser, "none", {}, 0,
                       AnonymousUser)

Next ==
    \/ Home
    \/ CreateRequest
    \/ DeleteRequest
    \/ ChangeStatus
    \/ ManageCategories

Spec == Init /\ [][Next]_vars

\* the same system with room for two requests and two categories
WideCreateRequest == CreateRequestWithin(WideMaxRequests)

WideManageCategories == ManageCategoriesWithin(WideMaxCategories)

NextWide ==
    \/ Home
    \/ WideCreateRequest
    \/ DeleteRequest
    \/ ChangeStatus
    \/ WideManageCategories

SpecWide == Init /\ [][NextWide]_vars

----------------------------------------------------------------------------
(* Inputs of the registration scenario *)

Logins == {"admin", "ivan", "olga"}
EmailInputs == {"", "admin@example.com", "ivan@example.com", "not-an-email"}

NameTwo == <<"cyr_a", " ", "cyr_b">>
NameThree == <<" ", "cyr_a", " ", "cyr_b", " ", " ", "cyr_v">>
FullNameInputs ==
    {<<>>, <<"cyr_a">>, NameTwo, NameThree,
     <<"cyr_a", " ", "cyr_b", " ", "cyr_v", " ", "cyr_a">>,
     <<"cyr_a", " ", "lat_z">>, <<" ", " ">>, <<"cyr_a", "-", "cyr_b", " ", "cyr_v">>}

BaseForm(l, e) ==
    [username |-> l, email |-> e, password1 |-> "pw", password2 |-> "pw",
     full_name |-> NameThree, agree_to_terms |-> TRUE]

RegisterInputs ==
    UNION {
        {BaseForm(l, e)}
        \cup {[BaseForm(l, e) EXCEPT !.full_name = n] : n \in FullNameInputs}
        \cup {[BaseForm(l, e) EXCEPT !.password2 = p] : p \in {"", "other"}}
        \cup {[BaseForm(l, e) EXCEPT !.agree_to_terms = FALSE]}
      : l \in Logins \cup {""}, e \in EmailInputs}

Register ==
    \E user \in Callers, method \in Methods :
        \E form \in IF method = "POST" THEN RegisterInputs
                    ELSE {BaseForm("", "")} :
            register(user, method, form)

InitRegister ==
    /\ users = {AdminUser}
    /\ categories = <<>>
    /\ requests = <<>>
    /\ nextCategoryId = 1
    /\ nextRequestId = 1
    /\ http = Exchange("none", AnonymousUser, "none", {}, 0,
                       AnonymousUser)

NextRegister == Register

SpecRegister == InitRegister /\ [][NextRegister]_vars

----------------------------------------------------------------------------
(* Vocabulary of the properties *)

\* the stored token of the state labelled "done" in STATUS_CHOICES
CompletedState == "complited"

\* the statuses a request has once triage moved it out of "new"
TriagedStates == {"in_progress", CompletedState}

LowerChar(ch) ==
    CASE ch = "A" -> "a"
      [] ch = "B" -> "b"
      [] OTHER -> ch

\* case folding of a category name
Lower(name) == [i \in DOMAIN name |-> LowerChar(name[i])]

Kept == RequestIds \cap DOMAIN requests'

----------------------------------------------------------------------------
(* C1 - C10 *)

\* C1: the workflow is forward-only and single-shot: once a request has left
\* status "new", no later step changes its status, design image or admin
\* comment.
C1_ForwardOnly ==
    [][\A r \in RequestIds :
          (requests[r].status \in TriagedStates /\ r \in DOMAIN requests')
          => /\ requests'[r].status = requests[r].status
             /\ requests'[r].design_image = requests[r].design_image
             /\ requests'[r].admin_comment = requests[r].admin_comment]_vars

\* C2: delete_request removes a request only when the caller owns it and its
\* status is "new"; any other principal is answered not-found; a request that
\* was triaged is never removed by delete_request.
C2_DeleteGuard ==
    [][http'.view = "delete_request"
       => /\ \A r \in RequestIds :
                r \notin DOMAIN requests'
                => /\ r = http'.target
                   /\ requests[r].user = http'.user
                   /\ requests[r].status = "new"
          /\ (/\ http'.target \in RequestIds
              /\ http'.user \in Usernames
              /\ requests[http'.target].user # http'.user)
             => (http'.result = "not_found" /\ requests' = requests)]_vars

\* C3: every request whose status is the completed state has a design image.
C3_CompletedHasImage ==
    \A r \in RequestIds :
        requests[r].status = CompletedState => requests[r].design_image # NoFile

\* C4: every request with status in_progress has a non-empty admin comment,
\* and a change_status submission answered with a field error on
\* admin_comment leaves the stored requests unchanged.
C4_InProgressNeedsComment ==
    /\ [](\A r \in RequestIds :
            requests[r].status = "in_progress" => requests[r].admin_comment # <<>>)
    /\ [][(http'.view = "change_status" /\ "admin_comment" \in http'.errors)
          => requests' = requests]_vars

\* C4 witness: an in_progress submission without a comment was just rejected
\* with an error on admin_comment, and the request is still new.
C4_Witness ==
    /\ http.view = "change_status"
    /\ http.result = "render"
    /\ http.errors = {"admin_comment"}
    /\ http.target \in RequestIds
    /\ requests[http.target].status = "new"

\* C5: every request persisted by create_request has status new and is owned
\* by the caller, and holds validated fields; a create_request exchange that
\* does not end in success persists nothing.
C5_CreateForcesNewAndOwner ==
    [][/\ \A r \in DOMAIN requests' \ RequestIds :
             /\ http'.view = "create_request"
             /\ http'.result = "redirect_success"
             /\ requests'[r].status = "new"
             /\ requests'[r].user = http'.user
             /\ requests'[r].title # ""
             /\ requests'[r].description # ""
             /\ requests'[r].category \in CategoryIds
             /\ requests'[r].plan_image # NoFile
             /\ validate_image_extension_and_size(requests'[r].plan_image)
       /\ (http'.view = "create_request" /\ http'.result # "redirect_success")
          => requests' = requests]_vars

\* C5 witness: create_request has just persisted a request for its caller.
C5_Witness ==
    /\ http.view = "create_request"
    /\ http.result = "redirect_success"
    /\ http.target \in RequestIds
    /\ requests[http.target].user = http.user
    /\ requests[http.target].status = "new"

\* C6: no two stored categories have names that are equal up to letter case.
C6_CaseInsensitiveUnique ==
    \A c1 \in CategoryIds : \A c2 \in CategoryIds :
        c1 # c2 => Lower(categories[c1]) # Lower(categories[c2])

\* C7: every stored request references an existing category, and a step that
\* removes a category is a manage_categories delete after which no request
\* references it and every request of another category is unchanged.
C7_CascadeDelete ==
    /\ [](\A r \in RequestIds : requests[r].category \in CategoryIds)
    /\ [][\A c \in CategoryIds :
             c \notin DOMAIN categories'
             => /\ http'.view = "manage_categories"
                /\ http'.target = c
                /\ \A r \in DOMAIN requests' : requests'[r].category # c
                /\ \A r \in RequestIds :
                      requests[r].category # c
                      => (r \in DOMAIN requests' /\ requests'[r] = requests[r])
                /\ \A k \in CategoryIds \ {c} :
                      k \in DOMAIN categories' /\ categories'[k] = categories[k]]_vars

\* C7 witness: a category delete has just succeeded, one of the two requests
\* issued is gone and the other, of the remaining category, is still stored.
C7_Witness ==
    /\ http.view = "manage_categories"
    /\ http.result = "render_success"
    /\ http.target \notin CategoryIds
    /\ CategoryIds # {}
    /\ nextRequestId = 3
    /\ Cardinality(RequestIds) = 1
    /\ \A r \in RequestIds : requests[r].status # "new"

\* the landing-page list the claim describes: the newest HomePageSize requests
\* in the completed state, newest first
ExpectedLandingList ==
    FirstN(OrderByCreatedDesc(
               {r \in RequestIds : requests[r].status = CompletedState}),
           HomePageSize)

\* C8: the landing page lists exactly the newest requests in the completed
\* state; it is non-empty whenever such a request exists.
C8_LandingListsCompleted ==
    completed_requests = ExpectedLandingList

\* C9: change_status and manage_categories called by an anonymous or
\* non-staff principal change no request and no category, and a request's
\* status changes only in a step made by a staff principal.
C9_StaffOnly ==
    [][/\ (/\ http'.view \in {"change_status", "manage_categories"}
           /\ ~ is_staff(http'.user))
          => (requests' = requests /\ categories' = categories)
       /\ \A r \in Kept :
             requests'[r].status # requests[r].status => is_staff(http'.user)]_vars

\* C9 witness: a non-staff user has just called change_status on a stored
\* request and was turned away.
C9_Witness ==
    /\ http.view = "change_status"
    /\ http.user = "ivan"
    /\ http.result = "login_redirect"
    /\ \E r \in RequestIds : requests[r].status = "new"

\* C10: no two stored principals share a login or an email, and a register
\* exchange that does not end in success stores no principal and leaves the
\* session as it was.
C10_UniquePrincipals ==
    /\ [](\A u1 \in users : \A u2 \in users :
            (u1.username = u2.username \/ u1.email = u2.email) => u1 = u2)
    /\ [][(http'.view = "register" /\ http'.result # "redirect_success")
          => (users' = users /\ http'.session = http'.user)]_vars

\* C10 witness: a second principal is stored and a registration has just been
\* rejected for its login or email.
C10_Witness ==
    /\ Cardinality(users) >= 2
    /\ http.view = "register"
    /\ http.result = "render"
    /\ http.errors \cap {"username", "email"} # {}

====
